---- MODULE Spec2Model ----
(***************************************************************************)
(* Model of app/handlers/Exec.py: ExecHandler forwards an inbound request  *)
(* to a backend with a streaming POST and replays the backend's            *)
(* newline-delimited commands onto the inbound response.                   *)
(*                                                                         *)
(* Bytes are integers 0..255.  The JSON text of a protocol line is         *)
(* represented by ONE ASCII byte (a token) standing for the whole JSON     *)
(* document of that command; like JSON documents, tokens are prefix-free   *)
(* and the concatenation of two of them is not a document, so a fused or   *)
(* split line never parses.  loads() below maps a decoded text to the JSON *)
(* value the token stands for.                                             *)
(*                                                                         *)
(* Specifications: Spec (two requests sharing the buffer), SpecOne (one    *)
(* request, every kind of line), FairOne (one request, with the event loop *)
(* resuming a failed call), SpecGateway (any inbound request: method,      *)
(* route, query and body), SpecRedirect (redirect documents), SpecPoison   *)
(* (two requests, bytes of a two-byte character).                          *)
(***************************************************************************)
EXTENDS Integers, Sequences, FiniteSets, TLC

\* ------------------------------------------------------------------ bounds
NumRequests == 2      \* concurrently served inbound requests
MaxBytes == 4         \* bytes delivered by the backends, all streams together
MaxChunk == 2         \* longest chunk handed to one streaming callback
MaxStreamBytes == 4   \* bytes delivered on the one stream of SpecOne

Requests == 1..NumRequests

\* ------------------------------------------------------------------- bytes
LF == 10              \* 0x0A, the line terminator
Utf8Lead == 195       \* 0xC3, lead byte of a two-byte UTF-8 sequence
Utf8Cont == 169       \* 0xA9, continuation byte (0xC3 0xA9 is U+00E9)

\* tokens: one byte standing for the JSON text of one protocol line
TokWrite == 119           \* {"command":"write","data":{"content":"w"}}
TokWriteNull == 110       \* {"command":"write","data":{}}
TokWriteFlush == 87       \* {"command":"write","data":{"content":"W","flush":true}}
TokSetStatus == 115       \* {"command":"set_status","data":{"code":404}}
TokSetCookie == 99        \* {"command":"set_cookie","data":{"name":"c","value":"v"}}
TokPlainCookie == 67      \* {"command":"set_cookie","data":{"name":"c","value":"v","secure":true}}
TokClearCookie == 100     \* {"command":"clear_cookie","data":{"name":"c"}}
TokClearAllCookie == 97   \* {"command":"clear_all_cookie","data":{}}
TokSetHeader == 104       \* {"command":"set_header","data":{"key":"X-Data","value":"Asyncy"}}
TokFlush == 108           \* {"command":"flush"}
TokRedirect == 114        \* {"command":"redirect","data":{"url":"/x"}}
FirstRedirectToken == 32  \* the first of the redirect documents of RedirectData
TokFinish == 102          \* {"command":"finish"}
TokBogus == 120           \* {"command":"bogus"}
TokNoCommand == 107       \* {"data":{}}            (valid JSON, no command field)

\* --------------------------------------------------------------- sequences
IsPrefix(s, t) == Len(s) <= Len(t) /\ SubSeq(t, 1, Len(s)) = s

\* ------------------------------------------------------ bytes.decode('utf-8')
\* Decodes one- and two-byte UTF-8 sequences to code points; every other
\* byte pattern (a lone lead byte, a lone continuation byte) raises.
RECURSIVE decode(_)
decode(bs) ==
    IF bs = <<>> THEN [ok |-> TRUE, text |-> <<>>]
    ELSE LET b == Head(bs) IN
         IF b < 128
         THEN LET rest == decode(Tail(bs))
              IN  [ok |-> rest.ok, text |-> <<b>> \o rest.text]
         ELSE IF b >= 194 /\ b <= 223 /\ Len(bs) >= 2
                 /\ bs[2] >= 128 /\ bs[2] <= 191
         THEN LET rest == decode(Tail(Tail(bs)))
              IN  [ok |-> rest.ok,
                   text |-> <<(b - 192) * 64 + (bs[2] - 128)>> \o rest.text]
         ELSE [ok |-> FALSE, text |-> <<>>]

\* ------------------------------------------------------ redirect documents
\* A text is a sequence of one-character strings.  The redirect documents a
\* backend may send: every url below with every `query` below.
RedirectUrls ==
    << <<"/", "x">>,
       <<"/", "x", "?", "y", "=", "2">>,
       <<"/", "x", "?">> >>

\* a JSON object, its entries in document order
Dict(items) == [type |-> "dict", items |-> items]

RedirectQueries ==
    << [type |-> "absent", items |-> <<>>],                \* no `query` key
       [type |-> "null", items |-> <<>>],                  \* null
       [type |-> "str", items |-> <<>>],                   \* "q=1"
       [type |-> "list", items |-> <<>>],                  \* [["q","1"]]
       Dict(<<>>),                                         \* {}
       Dict(<< <<<<"q">>, <<"1">>>> >>),                   \* {"q":"1"}
       Dict(<< <<<<"q">>, <<"1">>>>, <<<<"y">>, <<"2">>>> >>),
       Dict(<< <<<<"a", " ", "b">>, <<"?", "&">>>> >>) >>  \* {"a b":"?&"}

\* the byte that stands for the document with the u-th url and the q-th query
RedirectToken(u, q) == FirstRedirectToken + (u - 1) * Len(RedirectQueries) + (q - 1)

RedirectTokens ==
    {RedirectToken(u, q) : u \in DOMAIN RedirectUrls, q \in DOMAIN RedirectQueries}

\* the `data` of a redirect document
RedirectData(tok) ==
    LET k == tok - FirstRedirectToken
        url == RedirectUrls[(k \div Len(RedirectQueries)) + 1]
        query == RedirectQueries[(k % Len(RedirectQueries)) + 1]
    IN  IF query.type = "absent" THEN [url |-> url]
        ELSE [url |-> url, query |-> query]

\* -------------------------------------------------------------- ujson.loads
\* The JSON value each token stands for.
JsonValue(tok) ==
    CASE tok = TokWrite -> [command |-> "write", data |-> [content |-> "w"]]
      [] tok = TokWriteNull -> [command |-> "write", data |-> [flush |-> FALSE]]
      [] tok = TokWriteFlush ->
            [command |-> "write", data |-> [content |-> "W", flush |-> TRUE]]
      [] tok = TokSetStatus -> [command |-> "set_status", data |-> [code |-> 404]]
      [] tok = TokSetCookie ->
            [command |-> "set_cookie", data |-> [name |-> "c", value |-> "v"]]
      [] tok = TokPlainCookie ->
            [command |-> "set_cookie",
             data |-> [name |-> "c", value |-> "v", secure |-> TRUE]]
      [] tok = TokClearCookie -> [command |-> "clear_cookie", data |-> [name |-> "c"]]
      [] tok = TokClearAllCookie ->
            [command |-> "clear_all_cookie", data |-> [path |-> "/"]]
      [] tok = TokSetHeader ->
            [command |-> "set_header", data |-> [key |-> "X-Data", value |-> "Asyncy"]]
      [] tok = TokFlush -> [command |-> "flush"]
      [] tok = TokRedirect -> [command |-> "redirect", data |-> [url |-> <<"/", "x">>]]
      [] tok \in RedirectTokens -> [command |-> "redirect", data |-> RedirectData(tok)]
      [] tok = TokFinish -> [command |-> "finish"]
      [] tok = TokBogus -> [command |-> "bogus"]
      [] tok = TokNoCommand -> [data |-> [content |-> "w"]]

JsonDocs ==
    {TokWrite, TokWriteNull, TokWriteFlush, TokSetStatus, TokSetCookie,
     TokPlainCookie, TokClearCookie, TokClearAllCookie, TokSetHeader, TokFlush,
     TokRedirect, TokFinish, TokBogus, TokNoCommand} \cup RedirectTokens

\* ujson.loads(text): a ValueError unless the text is exactly one JSON document
\* (the empty text, a fragment and two fused documents all fail).
loads(text) ==
    IF Len(text) = 1 /\ text[1] \in JsonDocs
    THEN [ok |-> TRUE, value |-> JsonValue(text[1])]
    ELSE [ok |-> FALSE, value |-> [error |-> "ValueError"]]

\* the reason argument of set_status left at its default
None == "None"
\* `d.get(key)` used as a condition: the key is present and its value is true
Truthy(d, key) == key \in DOMAIN d /\ d[key] = TRUE

\* ------------------------------------------------- the inbound response
\* The RequestHandler state that ExecHandler's calls read and write.
StatusReason(code) ==
    CASE code = 200 -> "OK"
      [] code = 302 -> "Found"
      [] code = 404 -> "Not Found"
      [] code = 405 -> "Method Not Allowed"
      [] code = 500 -> "Internal Server Error"
      [] OTHER -> "Unknown"

FailureReason == "Story execution failed"
FailureBody == "HTTP 500: Story execution failed\n"

Put(f, k, v) == [x \in DOMAIN f \cup {k} |-> IF x = k THEN v ELSE f[x]]

\* the response of a handler that was just constructed
NewResponse ==
    [status |-> 200, reason |-> "OK",
     headers |-> <<>>,
     cookies |-> <<>>,
     body |-> <<>>,              \* every chunk written, in order
     sent |-> 0,                 \* how many of them were flushed to the client
     headersWritten |-> FALSE,
     finished |-> FALSE,
     finishCalls |-> 0]          \* history: calls of finish()

Ok(rs) == [resp |-> rs, raised |-> FALSE]
Raise(rs) == [resp |-> rs, raised |-> TRUE]

\* self.write(chunk): RuntimeError after finish()
write(rs, chunk) ==
    IF rs.finished THEN Raise(rs)
    ELSE Ok([rs EXCEPT !.body = Append(@, chunk)])

\* self.flush(): sends the status line and headers once, then the buffered body
flush(rs) == [rs EXCEPT !.headersWritten = TRUE, !.sent = Len(rs.body)]

\* self.set_status(code, reason=None): no guard on the finished flag
set_status(rs, code, reason) ==
    [rs EXCEPT !.status = code,
               !.reason = IF reason = None THEN StatusReason(code) ELSE reason]

\* self.set_header(name, value): no guard on the finished flag
set_header(rs, name, value) == [rs EXCEPT !.headers = Put(@, name, value)]

\* self.set_cookie / self.set_secure_cookie / self.clear_cookie
set_cookie(rs, name, value, kind) ==
    [rs EXCEPT !.cookies = Append(@, [name |-> name, value |-> value, kind |-> kind])]

\* self.finish(): RuntimeError when called twice
finish(rs) ==
    IF rs.finished THEN Raise([rs EXCEPT !.finishCalls = @ + 1])
    ELSE Ok([flush(rs) EXCEPT !.finished = TRUE, !.finishCalls = @ + 1])

\* self.redirect(url): refuses once the headers were written, else 302 + finish
redirect(rs, url) ==
    IF rs.headersWritten THEN Raise(rs)
    ELSE finish(set_header(set_status(rs, 302, None), "Location", url))

\* --------------------------------------------------------- urllib.urlencode
\* quote_plus: letters, digits and _ . - ~ stay, a space becomes +, any other
\* character becomes % and the two hex digits of its byte
Unreserved == {"a", "b", "q", "x", "y", "1", "2", "_", ".", "-", "~"}

PercentCode(c) ==
    CASE c = "/" -> <<"%", "2", "F">>
      [] c = "?" -> <<"%", "3", "F">>
      [] c = "=" -> <<"%", "3", "D">>
      [] c = "&" -> <<"%", "2", "6">>
      [] c = "+" -> <<"%", "2", "B">>
      [] c = "%" -> <<"%", "2", "5">>

RECURSIVE quote_plus(_)
quote_plus(text) ==
    IF text = <<>> THEN <<>>
    ELSE LET c == Head(text) IN
         (IF c \in Unreserved THEN <<c>>
          ELSE IF c = " " THEN <<"+">>
          ELSE PercentCode(c)) \o quote_plus(Tail(text))

\* urlencode(params): key=value of each entry in order, joined with &
RECURSIVE urlencode(_)
urlencode(items) ==
    IF items = <<>> THEN <<>>
    ELSE quote_plus(Head(items)[1]) \o <<"=">> \o quote_plus(Head(items)[2])
            \o (IF Tail(items) = <<>> THEN <<>>
                ELSE <<"&">> \o urlencode(Tail(items)))

\* Mutant of RedirectTarget: the query is always started with `?`.
RedirectTarget_AlwaysQuestion(data) ==
    IF "query" \in DOMAIN data /\ data.query.type = "dict"
    THEN data.url \o <<"?">> \o urlencode(data.query.items)
    ELSE data.url

\* the redirect branch up to self.redirect: params = data.get('query'); a
\* dict is url-encoded and joined to the url with & when the url has a ?,
\* else with ?
RedirectTarget(data) ==
    IF "query" \in DOMAIN data /\ data.query.type = "dict"
    THEN LET query_string == urlencode(data.query.items)
         IN  IF "?" \in {data.url[i] : i \in DOMAIN data.url}
             THEN data.url \o <<"&">> \o query_string
             ELSE data.url \o <<"?">> \o query_string
    ELSE data.url

\* Mutant of Frame: a line that does not decode is dropped from the buffer.
RECURSIVE Frame_ClearOnError(_, _, _)
Frame_ClearOnError(buf, chunk, instructions) ==
    IF chunk = <<>>
    THEN [buffer |-> buf, instructions |-> instructions, raised |-> FALSE]
    ELSE LET b == Head(chunk) IN
         IF b = LF
         THEN LET d == decode(buf) IN
              IF d.ok
              THEN Frame_ClearOnError(<<>>, Tail(chunk), Append(instructions, d.text))
              ELSE [buffer |-> <<>>, instructions |-> instructions, raised |-> TRUE]
         ELSE Frame_ClearOnError(Append(buf, b), Tail(chunk), instructions)

\* Mutant of Frame: the buffer is cleared before the line is decoded.
RECURSIVE Frame_ClearFirst(_, _, _)
Frame_ClearFirst(buf, chunk, instructions) ==
    IF chunk = <<>>
    THEN [buffer |-> buf, instructions |-> instructions, raised |-> FALSE]
    ELSE LET b == Head(chunk) IN
         IF b = LF
         THEN Frame_ClearFirst(<<>>, Tail(chunk), Append(instructions, decode(<<>>).text))
         ELSE Frame_ClearFirst(Append(buf, b), Tail(chunk), instructions)

\* Mutant of Frame: the line feed is stored after the line it ended is taken.
RECURSIVE Frame_StoreLF(_, _, _)
Frame_StoreLF(buf, chunk, instructions) ==
    IF chunk = <<>>
    THEN [buffer |-> buf, instructions |-> instructions, raised |-> FALSE]
    ELSE LET b == Head(chunk) IN
         IF b = LF
         THEN LET d == decode(buf) IN
              IF d.ok
              THEN Frame_StoreLF(<<b>>, Tail(chunk), Append(instructions, d.text))
              ELSE [buffer |-> buf, instructions |-> instructions, raised |-> TRUE]
         ELSE Frame_StoreLF(Append(buf, b), Tail(chunk), instructions)

\* Mutant of Frame: the buffer is not cleared after a line is taken from it.
RECURSIVE Frame_NoClear(_, _, _)
Frame_NoClear(buf, chunk, instructions) ==
    IF chunk = <<>>
    THEN [buffer |-> buf, instructions |-> instructions, raised |-> FALSE]
    ELSE LET b == Head(chunk) IN
         IF b = LF
         THEN LET d == decode(buf) IN
              IF d.ok
              THEN Frame_NoClear(buf, Tail(chunk), Append(instructions, d.text))
              ELSE [buffer |-> buf, instructions |-> instructions, raised |-> TRUE]
         ELSE Frame_NoClear(Append(buf, b), Tail(chunk), instructions)

\* ------------------------------------------------ _callback: the framing loop
\* for b in chunk: a line feed decodes and clears the buffer, any other byte
\* is appended.  A decode error leaves the loop with the buffer as it is.
RECURSIVE Frame(_, _, _)
Frame(buf, chunk, instructions) ==
    IF chunk = <<>>
    THEN [buffer |-> buf, instructions |-> instructions, raised |-> FALSE]
    ELSE LET b == Head(chunk) IN
         IF b = LF
         THEN LET d == decode(buf) IN
              IF d.ok
              THEN Frame(<<>>, Tail(chunk), Append(instructions, d.text))
              ELSE [buffer |-> buf, instructions |-> instructions, raised |-> TRUE]
         ELSE Frame(Append(buf, b), Tail(chunk), instructions)

\* Mutant of Apply: an unknown command is ignored instead of raising.
Apply_IgnoreUnknown(rs, ins) ==
    LET command == ins.command IN
    CASE command = "write" ->
            LET w == write(rs, IF "content" \in DOMAIN ins.data
                               THEN ins.data.content ELSE "null")
            IN  IF w.raised THEN w
                ELSE IF Truthy(ins.data, "flush") THEN Ok(flush(w.resp)) ELSE w
      [] command = "set_status" -> Ok(set_status(rs, ins.data.code, None))
      [] command = "set_cookie" ->
            IF Truthy(ins.data, "secure")
            THEN Ok(set_cookie(rs, ins.data.name, ins.data.value, "plain"))
            ELSE Ok(set_cookie(rs, ins.data.name, ins.data.value, "signed"))
      [] command \in {"clear_cookie", "clear_all_cookie"} ->
            IF "name" \in DOMAIN ins.data
            THEN Ok(set_cookie(rs, ins.data.name, "", "cleared"))
            ELSE Raise(rs)
      [] command = "set_header" -> Ok(set_header(rs, ins.data.key, ins.data.value))
      [] command = "flush" -> Ok(flush(rs))
      [] command = "redirect" -> redirect(rs, RedirectTarget(ins.data))
      [] OTHER -> Ok(rs)

\* ------------------------------------------- _callback: one command's branch
Apply(rs, ins) ==
    LET command == ins.command IN
    CASE command = "write" ->
            LET w == write(rs, IF "content" \in DOMAIN ins.data
                               THEN ins.data.content ELSE "null")
            IN  IF w.raised THEN w
                ELSE IF Truthy(ins.data, "flush") THEN Ok(flush(w.resp)) ELSE w
      [] command = "set_status" -> Ok(set_status(rs, ins.data.code, None))
      [] command = "set_cookie" ->
            IF Truthy(ins.data, "secure")
            THEN Ok(set_cookie(rs, ins.data.name, ins.data.value, "plain"))
            ELSE Ok(set_cookie(rs, ins.data.name, ins.data.value, "signed"))
      [] command \in {"clear_cookie", "clear_all_cookie"} ->
            IF "name" \in DOMAIN ins.data
            THEN Ok(set_cookie(rs, ins.data.name, "", "cleared"))
            ELSE Raise(rs)                      \* clear_cookie() needs a name
      [] command = "set_header" -> Ok(set_header(rs, ins.data.key, ins.data.value))
      [] command = "flush" -> Ok(flush(rs))
      [] command = "redirect" -> redirect(rs, RedirectTarget(ins.data))
      [] OTHER -> Raise(rs)                     \* NotImplementedError

\* --------------------------------------------- _callback: the dispatch loop
\* Mutant of Execute: the finish command finishes the response.
RECURSIVE Execute_FinishCloses(_, _, _)
Execute_FinishCloses(rs, instructions, done) ==
    IF instructions = <<>>
    THEN [resp |-> rs, applied |-> done, raised |-> FALSE, broke |-> FALSE]
    ELSE LET line == Head(instructions)
             ins == loads(line)
         IN  IF ~ins.ok
             THEN [resp |-> rs, applied |-> done, raised |-> TRUE, broke |-> FALSE]
             ELSE IF "command" \notin DOMAIN ins.value
             THEN [resp |-> rs, applied |-> done, raised |-> TRUE, broke |-> FALSE]
             ELSE IF ins.value.command = "finish"
             THEN [resp |-> finish(rs).resp, applied |-> done,
                   raised |-> FALSE, broke |-> TRUE]
             ELSE LET res == Apply(rs, ins.value) IN
                  IF res.raised
                  THEN [resp |-> res.resp, applied |-> done,
                        raised |-> TRUE, broke |-> FALSE]
                  ELSE Execute_FinishCloses(res.resp, Tail(instructions),
                                            Append(done, line))

\* for ins in instructions: parse, look the command up, run its branch; finish
\* breaks out of the loop, any exception leaves it.  `done` collects the lines
\* whose branch ran to its end (history).
RECURSIVE Execute(_, _, _)
Execute(rs, instructions, done) ==
    IF instructions = <<>>
    THEN [resp |-> rs, applied |-> done, raised |-> FALSE, broke |-> FALSE]
    ELSE LET line == Head(instructions)
             ins == loads(line)
         IN  IF ~ins.ok                                     \* ValueError
             THEN [resp |-> rs, applied |-> done, raised |-> TRUE, broke |-> FALSE]
             ELSE IF "command" \notin DOMAIN ins.value       \* KeyError
             THEN [resp |-> rs, applied |-> done, raised |-> TRUE, broke |-> FALSE]
             ELSE IF ins.value.command = "finish"            \* break
             THEN [resp |-> rs, applied |-> done, raised |-> FALSE, broke |-> TRUE]
             ELSE LET res == Apply(rs, ins.value) IN
                  IF res.raised
                  THEN [resp |-> res.resp, applied |-> done,
                        raised |-> TRUE, broke |-> FALSE]
                  ELSE Execute(res.resp, Tail(instructions), Append(done, line))

\* ------------------------------------------------------------------- state
VARIABLES
    buffer,     \* ExecHandler.buffer: ONE bytearray, a class attribute
    pc,         \* per request: "new", "fetching", "error", "done"
    resp,       \* per request: the inbound response
    bufSrc,     \* history: for each byte of buffer, the request that fed it
    recv,       \* history: per request, the bytes its callbacks were handed
    trace,      \* history: per request, every line its callbacks framed, with
                \*   what the dispatch loop did with it
    foreign,    \* history: per request, the other requests whose bytes were in
                \*   a line dispatched on its response
    fault,      \* history: per request, why its outbound call failed
    cut,        \* history: per request, whether one of its chunks completed
                \*   a line that an earlier chunk had begun
    request,    \* per request: the inbound request (method, whether the router
                \*   resolves it, whether its query and body translate)
    calls       \* history: per request, how many route lookups, envelopes
                \*   built and outbound POSTs it caused

vars == <<buffer, pc, resp, bufSrc, recv, trace, foreign, fault, cut, request, calls>>

RECURSIVE SumLen(_, _)
SumLen(f, S) ==
    IF S = {} THEN 0
    ELSE LET x == CHOOSE y \in S : TRUE IN Len(f[x]) + SumLen(f, S \ {x})

Range(s) == {s[i] : i \in DOMAIN s}

\* what the dispatch loop did with each line of `instructions`
Outcomes(instructions, ex) ==
    [i \in 1..Len(instructions) |->
        [line |-> instructions[i],
         outcome |-> IF i <= Len(ex.applied) THEN "applied"
                     ELSE IF i > Len(ex.applied) + 1 THEN "skipped"
                     ELSE IF ex.raised THEN "raised" ELSE "finish"]]

\* a GET that the router resolves, with a well-formed query and no JSON body
PlainRequest == [method |-> "GET", routed |-> TRUE, argsUtf8 |-> TRUE, json |-> "none"]

NoCalls == [lookups |-> 0, envelopes |-> 0, posts |-> 0]

\* everything but the inbound requests
InitRest ==
    /\ buffer = <<>>
    /\ bufSrc = <<>>
    /\ pc = [r \in Requests |-> "new"]
    /\ resp = [r \in Requests |-> NewResponse]
    /\ recv = [r \in Requests |-> <<>>]
    /\ trace = [r \in Requests |-> <<>>]
    /\ foreign = [r \in Requests |-> {}]
    /\ fault = [r \in Requests |-> "none"]
    /\ cut = [r \in Requests |-> FALSE]
    /\ calls = [r \in Requests |-> NoCalls]

Init ==
    /\ request = [r \in Requests |-> PlainRequest]
    /\ InitRest

\* prepare()
prepare(rs) == set_header(rs, "Server", "Asyncy")

\* Mutant of Finalize: finish() is called without testing the finished flag.
Finalize_Unguarded(rs) == finish(rs).resp

\* the end of _handle: finish unless the response is finished already
Finalize(rs) == IF ~rs.finished THEN finish(rs).resp ELSE rs

\* Mutant of HandleFailure: the response is reset before the error is written.
HandleFailure_Reset(rs) ==
    LET cleared == [rs EXCEPT !.headers = <<>>, !.cookies = <<>>, !.body = <<>>]
        w == write(set_status(cleared, 500, FailureReason), FailureBody)
    IN  IF w.raised THEN w.resp ELSE finish(w.resp).resp

\* the except branch of _handle, then its end; the RuntimeError of a write
\* after finish() leaves _handle before the final test
HandleFailure(rs) ==
    LET w == write(set_status(rs, 500, FailureReason), FailureBody)
    IN  IF w.raised THEN w.resp ELSE Finalize(w.resp)

\* Mutant of RejectStatus: every unresolved request is answered 404.
RejectStatus_Always404(method) == 404

\* raise HTTPError(404) for GET, HTTPError(405) for every other method
RejectStatus(method) == IF method = "GET" THEN 404 ELSE 405

\* Mutant of resolve_by_uri: a query value or body that does not translate
\* is forwarded as it came.
resolve_by_uri_Lenient(rq) ==
    IF ~rq.routed
    THEN [raised |-> TRUE, fault |-> "route", status |-> RejectStatus(rq.method),
          envelopes |-> 0]
    ELSE [raised |-> FALSE, fault |-> "none", status |-> 200, envelopes |-> 1]

\* resolve_by_uri(path): the route lookup, then the envelope; the exceptions
\* are the HTTPError of a failed lookup, the UnicodeDecodeError of a query
\* value and the ValueError of a JSON body, in this order
resolve_by_uri(rq) ==
    IF ~rq.routed
    THEN [raised |-> TRUE, fault |-> "route", status |-> RejectStatus(rq.method),
          envelopes |-> 0]
    ELSE IF ~rq.argsUtf8 \/ rq.json = "invalid"
    THEN [raised |-> TRUE, fault |-> "translate", status |-> 500, envelopes |-> 0]
    ELSE [raised |-> FALSE, fault |-> "none", status |-> 200, envelopes |-> 1]

\* the page the framework writes for an error status
ErrorPage(code) == <<"error page", code>>

\* an exception that leaves the method: the framework resets the response,
\* sets the status of the HTTPError (500 for any other exception), writes its
\* error page and finishes
send_error(rs, code) ==
    LET cleared == [rs EXCEPT !.status = 200, !.reason = "OK",
                              !.headers = <<>>, !.body = <<>>]
    IN  finish(write(set_status(cleared, code, None), ErrorPage(code)).resp).resp

\* get/head/post/delete/patch/put: prepare(), then _handle up to the fetch:
\* resolve_by_uri, and the streaming POST is issued with the envelope
Handle(r) ==
    /\ pc[r] = "new"
    /\ request[r].method # "OPTIONS"
    /\ LET rv == resolve_by_uri(request[r]) IN
        /\ pc' = [pc EXCEPT ![r] = IF rv.raised THEN "done" ELSE "fetching"]
        /\ resp' = [resp EXCEPT ![r] =
                       IF rv.raised THEN send_error(prepare(@), rv.status)
                       ELSE prepare(@)]
        /\ fault' = [fault EXCEPT ![r] = rv.fault]
        /\ calls' = [calls EXCEPT ![r] =
                        [lookups |-> @.lookups + 1,
                         envelopes |-> @.envelopes + rv.envelopes,
                         posts |-> @.posts + (IF rv.raised THEN 0 ELSE 1)]]
    /\ UNCHANGED <<buffer, bufSrc, recv, trace, foreign, cut, request>>

\* Mutant of options: the response is left open.
options_NoFinish(rs) == set_header(rs, "Allow", "GET,HEAD,POST,PUT,PATCH,DELETE,OPTIONS")

\* options(path): the Allow header, then finish
AllowedMethods == "GET,HEAD,POST,PUT,PATCH,DELETE,OPTIONS"
options(rs) == finish(set_header(rs, "Allow", AllowedMethods)).resp

Options(r) ==
    /\ pc[r] = "new"
    /\ request[r].method = "OPTIONS"
    /\ pc' = [pc EXCEPT ![r] = "done"]
    /\ resp' = [resp EXCEPT ![r] = options(prepare(@))]
    /\ UNCHANGED <<buffer, bufSrc, recv, trace, foreign, fault, cut, request, calls>>

\* _callback(chunk), called by the HTTP client for a chunk of r's stream.  An
\* exception that leaves the callback fails the outbound call.
Callback(r, chunk) ==
    /\ pc[r] = "fetching"
    /\ LET fr == Frame(buffer, chunk, <<>>)
           ex == IF fr.raised
                 THEN [resp |-> resp[r], applied |-> <<>>,
                       raised |-> TRUE, broke |-> FALSE]
                 ELSE Execute(resp[r], fr.instructions, <<>>)
           n  == Len(fr.buffer)
       IN  /\ buffer' = fr.buffer
           /\ bufSrc' = IF fr.instructions # <<>>
                        THEN [i \in 1..n |-> r]
                        ELSE bufSrc \o [i \in 1..(n - Len(bufSrc)) |-> r]
           /\ resp' = [resp EXCEPT ![r] = ex.resp]
           /\ recv' = [recv EXCEPT ![r] = @ \o chunk]
           /\ trace' = [trace EXCEPT ![r] =
                           IF fr.raised THEN @
                           ELSE @ \o Outcomes(fr.instructions, ex)]
           /\ foreign' = [foreign EXCEPT ![r] =
                             IF fr.raised \/ fr.instructions = <<>> THEN @
                             ELSE @ \cup (Range(bufSrc) \ {r})]
           /\ cut' = [cut EXCEPT ![r] =
                         @ \/ (buffer # <<>> /\ fr.instructions # <<>>)]
           /\ pc' = [pc EXCEPT ![r] = IF ex.raised THEN "error" ELSE @]
           /\ fault' = [fault EXCEPT ![r] =
                           IF fr.raised THEN "decode"
                           ELSE IF ex.raised THEN "dispatch" ELSE @]
    /\ UNCHANGED <<request, calls>>

\* connection error, connect or total timeout: fetch fails
TransportFailure(r) ==
    /\ pc[r] = "fetching"
    /\ pc' = [pc EXCEPT ![r] = "error"]
    /\ fault' = [fault EXCEPT ![r] = "transport"]
    /\ UNCHANGED <<buffer, bufSrc, resp, recv, trace, foreign, cut, request, calls>>

\* Mutant of Except: the failed call is issued again.
Except_Retry(r) ==
    /\ pc[r] = "error"
    /\ pc' = [pc EXCEPT ![r] = "fetching"]
    /\ calls' = [calls EXCEPT ![r].posts = @ + 1]
    /\ UNCHANGED <<buffer, bufSrc, resp, recv, trace, foreign, fault, cut, request>>

\* _handle resumes with the exception of the failed fetch
Except(r) ==
    /\ pc[r] = "error"
    /\ pc' = [pc EXCEPT ![r] = "done"]
    /\ resp' = [resp EXCEPT ![r] = HandleFailure(@)]
    /\ UNCHANGED <<buffer, bufSrc, recv, trace, foreign, fault, cut, request, calls>>

\* _handle resumes after the backend closed the stream normally
FetchDone(r) ==
    /\ pc[r] = "fetching"
    /\ pc' = [pc EXCEPT ![r] = "done"]
    /\ resp' = [resp EXCEPT ![r] = Finalize(@)]
    /\ UNCHANGED <<buffer, bufSrc, recv, trace, foreign, fault, cut, request, calls>>

\* the bytes a backend sends in the concurrent specification
Alphabet == {LF, TokWrite, TokSetStatus, TokFinish, TokBogus}

Min(a, b) == IF a <= b THEN a ELSE b

\* the chunks of at most MaxChunk bytes that fit in what is left of `budget`
Chunks(S, budget) ==
    UNION {[1..n -> S] : n \in 0..Min(MaxChunk, budget - SumLen(recv, Requests))}

Next ==
    \E r \in Requests :
        \/ Handle(r)
        \/ \E chunk \in Chunks(Alphabet, MaxBytes) : Callback(r, chunk)
        \/ TransportFailure(r)
        \/ Except(r)
        \/ FetchDone(r)

Spec == Init /\ [][Next]_vars

\* ------------------------------------------------ one request, served alone
\* Request 1 is the only request of the process: its stream is longer and
\* draws on every kind of line.
OneAlphabet ==
    {LF, TokWrite, TokSetStatus, TokSetHeader, TokSetCookie, TokFlush,
     TokRedirect, TokFinish, TokBogus, TokNoCommand, Utf8Lead, Utf8Cont}

NextOne ==
    \/ Handle(1)
    \/ \E chunk \in Chunks(OneAlphabet, MaxStreamBytes) : Callback(1, chunk)
    \/ TransportFailure(1)
    \/ Except(1)
    \/ FetchDone(1)

SpecOne == Init /\ [][NextOne]_vars

\* ============================================================ properties
\* Reference notions used by the properties below (they model no code).

\* the positions of the line feeds of a byte sequence, and the k-th of them
LFPositions(bs) == {i \in 1..Len(bs) : bs[i] = LF}
KthLF(bs, k) ==
    CHOOSE i \in LFPositions(bs) : Cardinality({j \in LFPositions(bs) : j <= i}) = k

\* the complete lines of a byte stream: the bytes between consecutive line feeds
SplitLines(bs) ==
    [k \in 1..Cardinality(LFPositions(bs)) |->
        SubSeq(bs, IF k = 1 THEN 1 ELSE KthLF(bs, k - 1) + 1, KthLF(bs, k) - 1)]

\* the unterminated remainder of a byte stream
Remainder(bs) ==
    LET n == Cardinality(LFPositions(bs))
    IN  SubSeq(bs, IF n = 0 THEN 1 ELSE KthLF(bs, n) + 1, Len(bs))

\* the text of each complete line of a stream whose lines are valid UTF-8
TextLines(bs) == [k \in DOMAIN SplitLines(bs) |-> decode(SplitLines(bs)[k]).text]
AllDecodable(bs) == \A k \in DOMAIN SplitLines(bs) : decode(SplitLines(bs)[k]).ok

\* the lines request r's callbacks framed, and those whose command was applied
FramedLines(r) == [i \in DOMAIN trace[r] |-> trace[r][i].line]
IsApplied(t) == t.outcome = "applied"
AppliedLines(r) ==
    LET ts == SelectSeq(trace[r], IsApplied) IN [i \in DOMAIN ts |-> ts[i].line]

\* ---------------------------------------------------------------------- C1
\* C1: each request owns its decoder buffer: whatever the interleaving of the
\* chunk callbacks of concurrent requests, the lines dispatched on a request's
\* response are exactly the complete lines of its own backend stream, and no
\* byte of another request's stream is in a line dispatched on its response.
C1_ExclusiveBuffer ==
    \A r \in Requests :
        /\ foreign[r] = {}
        /\ fault[r] # "decode" => FramedLines(r) = TextLines(recv[r])

\* ---------------------------------------------------------------------- C2
\* C2: framing independence: for a stream of valid lines fed to a decoder that
\* starts empty and is fed by nobody else, however the bytes are cut into
\* chunks, the lines framed so far are the complete lines of the bytes received
\* so far, each once and in order, and the buffer is the unterminated remainder.
C2_FramingIndependence ==
    AllDecodable(recv[1]) =>
        /\ FramedLines(1) = TextLines(recv[1])
        /\ buffer = Remainder(recv[1])

\* a chunk boundary fell inside a two-byte character: the line was begun by
\* one chunk, completed by a later one and framed as one character
C2_Witness ==
    /\ cut[1]
    /\ recv[1] = <<Utf8Lead, Utf8Cont, LF>>
    /\ FramedLines(1) = <<<<233>>>>

\* ---------------------------------------------------------------------- C3
\* C3: terminal finish: once a finish command was dispatched on a stream, no
\* line that follows it in that stream is applied to the response, whether it
\* arrives in the same chunk or in a later one.
C3_TerminalFinish ==
    \A r \in Requests : \A i, j \in DOMAIN trace[r] :
        (i < j /\ trace[r][i].outcome = "finish") => trace[r][j].outcome # "applied"

\* ---------------------------------------------------------------------- C4
CommandKinds ==
    {"write", "set_status", "set_cookie", "clear_cookie", "clear_all_cookie",
     "set_header", "flush", "redirect", "finish"}

\* a line that is not valid JSON, has no command field, or names no CommandKind
IsViolation(line) ==
    \/ ~(Len(line) = 1 /\ line[1] \in JsonDocs)
    \/ "command" \notin DOMAIN JsonValue(line[1])
    \/ JsonValue(line[1]).command \notin CommandKinds

CommandOf(line) == JsonValue(line[1]).command

\* the lasting effects of the applied commands are all in the response: the
\* body is the applied writes in order (and nothing else but the failure text),
\* an applied set_header is in the headers, the cookies are the applied cookie
\* commands
IsWrite(line) == CommandOf(line) = "write"
IsCookie(line) == CommandOf(line) \in {"set_cookie", "clear_cookie"}
NotFailureBody(c) == c # FailureBody
WriteContent(line) ==
    IF "content" \in DOMAIN JsonValue(line[1]).data
    THEN JsonValue(line[1]).data.content ELSE "null"
EffectsRemain(r) ==
    LET writes == SelectSeq(AppliedLines(r), IsWrite)
    IN  /\ SelectSeq(resp[r].body, NotFailureBody)
              = [i \in DOMAIN writes |-> WriteContent(writes[i])]
        /\ Len(resp[r].cookies) = Len(SelectSeq(AppliedLines(r), IsCookie))
        /\ (\E i \in DOMAIN AppliedLines(r) : CommandOf(AppliedLines(r)[i]) = "set_header")
              => ("X-Data" \in DOMAIN resp[r].headers
                  /\ resp[r].headers["X-Data"] = "Asyncy")

\* C4: protocol-violation fatality: a line that is not valid JSON, lacks a
\* command field or names an unknown command is never applied; when the
\* dispatch loop reaches it, dispatch fails, the outbound call is over, no
\* later line of the stream is applied, and the effects of the commands applied
\* before it stay in the response.
C4_ViolationFatal ==
    \A r \in Requests : \A i \in DOMAIN trace[r] :
        IsViolation(trace[r][i].line) =>
            /\ trace[r][i].outcome # "applied"
            /\ (\A h \in 1..(i - 1) : trace[r][h].outcome = "applied")
                  => trace[r][i].outcome = "raised"
            /\ trace[r][i].outcome = "raised" =>
                  /\ pc[r] \in {"error", "done"}
                  /\ fault[r] = "dispatch"
                  /\ \A j \in DOMAIN trace[r] : j > i => trace[r][j].outcome = "skipped"
                  /\ EffectsRemain(r)

\* a write was applied, an unknown command failed, the request ran to its end
C4_Witness ==
    /\ pc[1] = "done"
    /\ Len(trace[1]) = 2
    /\ trace[1][1] = [line |-> <<TokWrite>>, outcome |-> "applied"]
    /\ trace[1][2] = [line |-> <<TokBogus>>, outcome |-> "raised"]
    /\ resp[1].body[1] = "w"

\* ---------------------------------------------------------------------- C5
\* C5: the unterminated remainder of a stream is discarded when the stream
\* ends: every outbound call starts with an empty decoder buffer.
C5_FreshBufferPerCall ==
    [][\A r \in Requests :
          (pc[r] = "new" /\ pc'[r] = "fetching") => buffer' = <<>>]_vars

\* ---------------------------------------------------------------------- C6
\* C6: transport failure without rollback: when _handle resumes from a failed
\* outbound call, whatever was applied before, the response status becomes 500
\* with the fixed reason, and the headers, the cookies and the body bytes
\* written so far stay as they were when the call failed.
C6_FailureKeepsEffects ==
    [][\A r \in Requests :
          (pc[r] = "error" /\ pc'[r] = "done") =>
              /\ resp'[r].status = 500
              /\ resp'[r].reason = FailureReason
              /\ resp'[r].headers = resp[r].headers
              /\ resp'[r].cookies = resp[r].cookies
              /\ IsPrefix(resp[r].body, resp'[r].body)]_vars

\* a header and a write were applied, then the transport failed
C6_Witness ==
    /\ pc[1] = "done"
    /\ fault[1] = "transport"
    /\ resp[1].status = 500
    /\ resp[1].body # <<>> /\ resp[1].body[1] = "w"
    /\ "X-Data" \in DOMAIN resp[1].headers

\* ---------------------------------------------------------------------- C7
\* C7: after a failed outbound call the fixed diagnostic body is in the
\* response only if no earlier command had written anything; a response that
\* already had body content holds exactly that content, with no diagnostic
\* text appended.
C7_DiagnosticOnlyIfUntouched ==
    \A r \in Requests :
        (pc[r] = "done" /\ fault[r] # "none" /\ FailureBody \in Range(resp[r].body)) =>
            resp[r].body = <<FailureBody>>

\* ---------------------------------------------------------------------- C8
\* C8: the finished flag is terminal: once the response is finished, no later
\* command and no failure handling changes its status, headers, cookies or body.
C8_FinishedIsTerminal ==
    [][\A r \in Requests :
          resp[r].finished =>
              /\ resp'[r].finished
              /\ resp'[r].status = resp[r].status
              /\ resp'[r].reason = resp[r].reason
              /\ resp'[r].headers = resp[r].headers
              /\ resp'[r].cookies = resp[r].cookies
              /\ resp'[r].body = resp[r].body]_vars

\* ---------------------------------------------------------------------- C9
\* The lines that bear on finishing: writes and flushes, a redirect, finish,
\* and the two ways a callback fails (a bad command, undecodable bytes).
FairAlphabet ==
    {LF, TokWrite, TokFlush, TokRedirect, TokFinish, TokBogus, Utf8Cont}

NextFair ==
    \/ Handle(1)
    \/ \E chunk \in Chunks(FairAlphabet, MaxStreamBytes) : Callback(1, chunk)
    \/ TransportFailure(1)
    \/ Except(1)
    \/ FetchDone(1)

\* The event loop resumes _handle once the future of a failed fetch resolves.
FairOne == Init /\ [][NextFair]_vars /\ WF_vars(Except(1))

\* C9: finalization on completion: once the outbound call of a request has
\* ended, normally or by failure, the response gets finished, and finish() is
\* called exactly once per request: it is skipped when the response was
\* finished during the stream already.
C9_FinalizedOnce ==
    /\ [](\A r \in Requests :
            /\ resp[r].finishCalls <= 1
            /\ resp[r].finished <=> resp[r].finishCalls = 1
            /\ pc[r] = "done" => resp[r].finished)
    /\ \A r \in Requests : (pc[r] = "error") ~> (pc[r] = "done" /\ resp[r].finished)

\* a redirect finished the response mid-stream, then the outbound call failed
C9_Witness ==
    /\ pc[1] = "done"
    /\ fault[1] = "transport"
    /\ \E i \in DOMAIN AppliedLines(1) : CommandOf(AppliedLines(1)[i]) = "redirect"
    /\ resp[1].finishCalls = 1

\* --------------------------------------------------------------------- C10
\* C10: within one stream the commands are applied in arrival order with none
\* skipped in the middle: the applied lines are a prefix of the framed lines.
C10_AppliedIsPrefix ==
    \A r \in Requests : \A i, j \in DOMAIN trace[r] :
        (i < j /\ trace[r][j].outcome = "applied") => trace[r][i].outcome = "applied"


\* ============================================== the front of the gateway
\* Request 1 is any inbound request: every method class, resolved by the
\* router or not, with a query and a body that translate or do not.
Methods == {"GET", "HEAD", "POST", "OPTIONS"}

InboundRequests ==
    [method : Methods, routed : BOOLEAN, argsUtf8 : BOOLEAN,
     json : {"none", "valid", "invalid"}]

InitGateway ==
    /\ request \in [Requests -> InboundRequests]
    /\ \A r \in Requests \ {1} : request[r] = PlainRequest
    /\ InitRest

GatewayAlphabet == {LF, TokWrite, TokBogus}

NextGateway ==
    \/ Handle(1)
    \/ Options(1)
    \/ \E chunk \in Chunks(GatewayAlphabet, MaxStreamBytes) : Callback(1, chunk)
    \/ TransportFailure(1)
    \/ Except(1)
    \/ FetchDone(1)

SpecGateway == InitGateway /\ [][NextGateway]_vars

\* the request is dispatched to _handle and the router does not resolve it
Unrouted(r) == request[r].method # "OPTIONS" /\ ~request[r].routed

\* the router resolves it, but its query or its JSON body does not translate
Untranslatable(r) ==
    /\ request[r].method # "OPTIONS"
    /\ request[r].routed
    /\ ~request[r].argsUtf8 \/ request[r].json = "invalid"

\* ---------------------------------------------------------------------- C11
\* C11: route resolution failure: a request that the router does not resolve
\* is answered 404 when its method is GET and 405 for every other method; no
\* envelope is built, no outbound call is issued and no byte is streamed.
C11_RouteFailureRejected ==
    \A r \in Requests :
        (Unrouted(r) /\ pc[r] # "new") =>
            /\ pc[r] = "done"
            /\ resp[r].finished
            /\ resp[r].status = (IF request[r].method = "GET" THEN 404 ELSE 405)
            /\ calls[r].envelopes = 0
            /\ calls[r].posts = 0
            /\ recv[r] = <<>>

C11_Witness ==
    /\ Unrouted(1) /\ request[1].method = "POST"
    /\ pc[1] = "done" /\ resp[1].status = 405 /\ calls[1].lookups = 1

\* ---------------------------------------------------------------------- C12
\* C12: request-translation failure: when the route resolves but a query
\* value is not valid UTF-8 or the JSON body does not parse, no outbound POST
\* is issued, no command is applied, and the response carries nothing but
\* the final error: status 500 with the framework's error page.
C12_TranslationFailureBlocks ==
    \A r \in Requests :
        (Untranslatable(r) /\ pc[r] # "new") =>
            /\ pc[r] = "done"
            /\ calls[r].posts = 0
            /\ recv[r] = <<>> /\ trace[r] = <<>>
            /\ resp[r].finished
            /\ resp[r].status = 500
            /\ resp[r].body = <<ErrorPage(500)>>
            /\ resp[r].cookies = <<>>
            /\ resp[r].headers = <<>>

C12_Witness ==
    /\ Untranslatable(1) /\ request[1].json = "invalid" /\ request[1].argsUtf8
    /\ pc[1] = "done" /\ resp[1].status = 500

\* ---------------------------------------------------------------------- C13
\* C13 as stated: every inbound request causes at most one outbound POST and
\* has exactly one envelope built.
C13_ExactlyOneEnvelope ==
    \A r \in Requests :
        /\ calls[r].posts <= 1
        /\ pc[r] # "new" => calls[r].envelopes = 1

\* C13, amended: at-most-once forwarding: every inbound request causes at
\* most one outbound POST and at most one envelope, a POST for each envelope;
\* the envelope is built exactly when the request is dispatched to _handle,
\* its route resolves and it translates; a call that failed is not retried.
C13_AtMostOnceForwarding ==
    \A r \in Requests :
        /\ calls[r].posts <= 1
        /\ calls[r].envelopes = calls[r].posts
        /\ pc[r] # "new" =>
              (calls[r].envelopes = 1 <=>
                  /\ request[r].method # "OPTIONS"
                  /\ ~Unrouted(r)
                  /\ ~Untranslatable(r))

C13_Witness ==
    /\ pc[1] = "done" /\ fault[1] \in {"transport", "dispatch"}
    /\ calls[1].posts = 1 /\ calls[1].envelopes = 1

\* ---------------------------------------------------------------------- C15
\* C15: an OPTIONS request gets the fixed Allow header and is finished with
\* a 2xx status, without a route lookup, an envelope or an outbound call.
C15_OptionsIsLocal ==
    \A r \in Requests :
        (request[r].method = "OPTIONS" /\ pc[r] # "new") =>
            /\ pc[r] = "done"
            /\ resp[r].finished /\ resp[r].finishCalls = 1
            /\ resp[r].status \in 200..299
            /\ "Allow" \in DOMAIN resp[r].headers
            /\ resp[r].headers["Allow"] = "GET,HEAD,POST,PUT,PATCH,DELETE,OPTIONS"
            /\ calls[r] = NoCalls
            /\ recv[r] = <<>>

C15_Witness ==
    /\ request[1].method = "OPTIONS" /\ ~request[1].routed
    /\ pc[1] = "done" /\ resp[1].finished

\* ---------------------------------------------------------------------- C14
\* C14: no partial emission: when a stream starts and no other stream is in
\* progress, feeding it bytes with no line feed among them emits no line,
\* dispatches no command, and leaves in the buffer exactly the bytes fed.
C14_NoPartialEmission ==
    \A r \in Requests :
        (/\ pc[r] = "fetching"
         /\ LF \notin Range(recv[r])
         /\ \A q \in Requests \ {r} : pc[q] \in {"new", "done"}) =>
            /\ trace[r] = <<>>
            /\ resp[r] = prepare(NewResponse)
            /\ buffer = recv[r]

\* ---------------------------------------------------------------------- C16
\* the trace entry of a line whose command is finish
FinishEntry == [line |-> <<TokFinish>>, outcome |-> "finish"]

\* C16: dispatching finish is no response mutation: a callback that
\* dispatches nothing but a finish command leaves the response (status,
\* headers, cookies, body, finished flag) as it was and the call running; the
\* response is finished when the outbound call ends.
C16_FinishLeavesResponse ==
    [][\A r \in Requests :
          /\ trace'[r] = Append(trace[r], FinishEntry) =>
                resp'[r] = resp[r] /\ pc'[r] = pc[r]
          /\ (pc[r] = "fetching" /\ pc'[r] = "done") => resp'[r].finished]_vars

C16_Witness ==
    /\ trace[1] = <<FinishEntry>>
    /\ pc[1] = "done" /\ fault[1] = "none"
    /\ resp[1].finished /\ resp[1].finishCalls = 1 /\ resp[1].status = 200

\* ---------------------------------------------------------------------- C18
\* str.encode('utf-8') of a decoded line (reference: the bytes of a text)
RECURSIVE encode(_)
encode(text) ==
    IF text = <<>> THEN <<>>
    ELSE LET c == Head(text) IN
         (IF c < 128 THEN <<c>> ELSE <<192 + (c \div 64), 128 + (c % 64)>>)
            \o encode(Tail(text))

\* every line, as bytes, each followed by one line feed
RECURSIVE Wire(_)
Wire(lines) ==
    IF lines = <<>> THEN <<>>
    ELSE encode(Head(lines)) \o <<LF>> \o Wire(Tail(lines))

\* C18: byte conservation: as long as no decode error occurred, the lines
\* emitted so far, each followed by a line feed, followed by the buffer, are
\* the bytes fed so far in arrival order: none dropped, duplicated, reordered.
C18_ByteConservation ==
    fault[1] # "decode" => Wire(FramedLines(1)) \o buffer = recv[1]

C18_Witness ==
    /\ recv[1] = <<Utf8Lead, Utf8Cont, LF, TokWrite>>
    /\ FramedLines(1) = <<<<233>>>>
    /\ buffer = <<TokWrite>>

\* ---------------------------------------------------------------------- C20
\* C20: buffer invariant: between callbacks the buffer holds no line feed; a
\* line feed is consumed as a terminator and never stored.
C20_NoLineFeedBuffered == LF \notin Range(buffer)

C20_Witness ==
    /\ Len(trace[1]) >= 2
    /\ buffer # <<>>
    /\ recv[1][Len(recv[1]) - 1] = LF

\* ---------------------------------------------------------------------- C17
\* Request 1 alone, its backend sending redirect documents only.
RedirectStreamBytes == 2

RedirectAlphabet == {LF} \cup RedirectTokens

NextRedirect ==
    \/ Handle(1)
    \/ \E chunk \in Chunks(RedirectAlphabet, RedirectStreamBytes) : Callback(1, chunk)
    \/ TransportFailure(1)
    \/ Except(1)
    \/ FetchDone(1)

SpecRedirect == Init /\ [][NextRedirect]_vars

\* what urlencode gives for each of RedirectQueries that is a mapping
EncodedEntries ==
    << <<>>, <<>>, <<>>, <<>>,
       <<>>,
       <<"q", "=", "1">>,
       <<"q", "=", "1", "&", "y", "=", "2">>,
       <<"a", "+", "b", "=", "%", "3", "F", "%", "2", "6">> >>

HasQuestionMark(url) == \E i \in DOMAIN url : url[i] = "?"

\* the target the claim gives for the u-th url with the q-th query
MergedTarget(u, q) ==
    LET url == RedirectUrls[u] IN
    IF RedirectQueries[q].type = "dict"
    THEN url \o (IF HasQuestionMark(url) THEN <<"&">> ELSE <<"?">>) \o EncodedEntries[q]
    ELSE url

\* the first line of request r is the redirect document (u, q) and was applied
Redirected(r, u, q) ==
    /\ trace[r] # <<>>
    /\ trace[r][1] = [line |-> <<RedirectToken(u, q)>>, outcome |-> "applied"]

\* C17: redirect query merge: the Location of a redirect whose query is a
\* mapping is the url, then ? when the url has no ? and & when it has one,
\* then the url-encoded entries ("/x" with {q: "1"} gives "/x?q=1", "/x?y=2"
\* gives "/x?y=2&q=1"); with the query absent or not a mapping it is the url.
C17_RedirectQueryMerge ==
    /\ \A r \in Requests : \A u \in DOMAIN RedirectUrls : \A q \in DOMAIN RedirectQueries :
          Redirected(r, u, q) => resp[r].headers["Location"] = MergedTarget(u, q)
    /\ \A r \in Requests :
          /\ Redirected(r, 1, 6) =>
                resp[r].headers["Location"] = <<"/", "x", "?", "q", "=", "1">>
          /\ Redirected(r, 2, 6) =>
                resp[r].headers["Location"]
                    = <<"/", "x", "?", "y", "=", "2", "&", "q", "=", "1">>

C17_Witness ==
    /\ Redirected(1, 2, 6)
    /\ resp[1].headers["Location"]
          = <<"/", "x", "?", "y", "=", "2", "&", "q", "=", "1">>
    /\ resp[1].finished

\* ---------------------------------------------------------------------- C19
\* Requests 1 and 2 share the buffer; their backends send text, line feeds
\* and the two bytes of a two-byte character, in chunks of up to
\* MaxPoisonChunk bytes.
MaxPoisonChunk == 3

PoisonAlphabet == {LF, Utf8Lead, Utf8Cont, TokWrite}

PoisonChunks ==
    UNION {[1..n -> PoisonAlphabet] :
              n \in 0..Min(MaxPoisonChunk, MaxBytes - SumLen(recv, Requests))}

NextPoison ==
    \E r \in {1, 2} :
        \/ Handle(r)
        \/ \E chunk \in PoisonChunks : Callback(r, chunk)
        \/ TransportFailure(r)
        \/ Except(r)
        \/ FetchDone(r)

SpecPoison == Init /\ [][NextPoison]_vars

\* the chunk a step feeds to request r, and its bytes before its first line feed
FedChunk(r) == SubSeq(recv'[r], Len(recv[r]) + 1, Len(recv'[r]))
BeforeFirstLF(chunk) ==
    SubSeq(chunk, 1, (CHOOSE i \in DOMAIN chunk :
                         chunk[i] = LF /\ \A j \in 1..(i - 1) : chunk[j] # LF) - 1)

\* the step is a callback of request r that fails to decode a line: nothing
\* of its chunk is dispatched and the buffer keeps bytes that do not decode
FailsUndispatched(r) ==
    (fault[r] # "decode" /\ fault'[r] = "decode") =>
        /\ trace'[r] = trace[r]
        /\ resp'[r] = resp[r]
        /\ buffer' # <<>>
        /\ ~decode(buffer').ok

\* a decode failure happened and the buffer holds bytes that do not decode
Poisoned == (\E q \in Requests : fault[q] = "decode") /\ ~decode(buffer).ok

C19_SameChunk ==
    /\ recv[1] = <<TokWrite, LF, Utf8Cont, LF>> /\ fault[1] = "decode"
    /\ trace[1] = <<>> /\ resp[1].body = <<>>
    /\ buffer = <<Utf8Cont>>


====
